---- MODULE Spec2Model ----
(***************************************************************************)
(* Incremental build orchestrator (cmd/apis/main.go and its REST twin):    *)
(* dependency resolution (topoSort), content fingerprinting (HashDir,      *)
(* ComputeFeatureHash), the on-disk hash cache (internal/cache) and the    *)
(* orchestration loop that prints SKIP / BUILD and runs docker build.      *)
(* Spec is the command-line builder run again and again, SpecResolve one   *)
(* run on every small registry, SpecHash one ComputeFeatureHash call (of   *)
(* the orchestrator and of internal/feature) and SpecServer the REST       *)
(* server handling concurrent POST /build requests.                        *)
(*                                                                         *)
(* Byte strings are sequences of tokens.  A token is either one character  *)
(* Ch(c) or one hexadecimal SHA-256 digest Sha(m), m being the byte string *)
(* that was hashed: the digest is modelled as collision free and of fixed  *)
(* width, so it is one indivisible token of any string it is written into. *)
(***************************************************************************)
EXTENDS Integers, Sequences, FiniteSets, TLC

\* ------------------------------------------------------------------ bounds
\* number of invocations of the builder in one behaviour
MaxRuns == 3
\* longest depends_on list of the registries that resolution is checked on
\* and of the ComputeFeatureHash calls
MaxDeps == 2
\* longest inputs list of the ComputeFeatureHash calls
MaxInputs == 2
\* number of POST /build requests the REST server receives
MaxRequests == 2

\* ------------------------------------------------------------ byte strings
Ch(c) == [ch |-> c]

IsCh(t) == "ch" \in DOMAIN t

\* the bytes of a string literal given as a tuple of characters
Bytes(s) == [i \in 1..Len(s) |-> Ch(s[i])]

RECURSIVE Concat(_)
\* the concatenation of a sequence of byte strings
Concat(ss) == IF ss = <<>> THEN <<>> ELSE Head(ss) \o Concat(Tail(ss))

Range(s) == {s[i] : i \in 1..Len(s)}

\* sha256 + hex.EncodeToString: a one-token string naming what was hashed
Sha256Hex(m) == <<[sha |-> m]>>

\* the byte value of a character
CharRank(c) == CASE c = "a" -> 97 [] c = "b" -> 98 [] c = "c" -> 99
                 [] c = "d" -> 100 [] c = "x" -> 120 [] c = "y" -> 121
                 [] c = "z" -> 122 [] c = "|" -> 124

RECURSIVE StrLess(_, _)
\* the order sort.Strings uses: lexicographic on the tokens.  Characters
\* order by CharRank; the order of two digests is a fixed total order
\* (here: the order of what they hash), as the hexadecimal order is.
TokLess(x, y) ==
    IF IsCh(x) /\ IsCh(y) THEN CharRank(x.ch) < CharRank(y.ch)
    ELSE IF IsCh(x) THEN TRUE
    ELSE IF IsCh(y) THEN FALSE
    ELSE StrLess(x.sha, y.sha)

StrLess(s, t) ==
    IF t = <<>> THEN FALSE
    ELSE IF s = <<>> THEN TRUE
    ELSE IF Head(s) = Head(t) THEN StrLess(Tail(s), Tail(t))
    ELSE TokLess(Head(s), Head(t))

RECURSIVE Insert(_, _)
Insert(x, s) ==
    IF s = <<>> THEN <<x>>
    ELSE IF StrLess(Head(s), x) THEN <<Head(s)>> \o Insert(x, Tail(s))
    ELSE <<x>> \o s

RECURSIVE SortStrings(_)
\* sort.Strings on a slice of strings
SortStrings(s) == IF s = <<>> THEN <<>> ELSE Insert(Head(s), SortStrings(Tail(s)))

RECURSIVE SortInts(_)
\* the elements of a finite set of integers in ascending order
SortInts(S) ==
    IF S = {} THEN <<>>
    ELSE LET m == CHOOSE x \in S : \A y \in S : x <= y
         IN  <<m>> \o SortInts(S \ {m})

\* ------------------------------------------------------------ file system
\* A directory is absent/unreadable or holds regular files; a file is named
\* by the rank of its path in lexical order and holds a byte string.
NoDir == [exists |-> FALSE, files |-> <<>>]

Dir(files) == [exists |-> TRUE, files |-> files]

\* HashDir: walk, sort the paths, copy every file into ONE sha256 state
HashDirOk(d) == d.exists

HashDir(d) ==
    LET paths == SortInts(DOMAIN d.files)
    IN  Sha256Hex(Concat([i \in 1..Len(paths) |-> d.files[paths[i]]]))

\* internal/hash.HashString: the digest of a string
hash_HashString(str) == Sha256Hex(str)

\* internal/hash.HashFile: the digest of one file's bytes
hash_HashFile(file) == Sha256Hex(file)

\* internal/hash.HashDir: walk, sort the paths, write the hexadecimal digest
\* of every file into the sha256 state
hash_HashDir(d) ==
    LET paths == SortInts(DOMAIN d.files)
    IN  Sha256Hex(Concat([i \in 1..Len(paths) |-> hash_HashFile(d.files[paths[i]])]))

\* ---------------------------------------------------------------- registry
\* config.Feature (Name is the registry key)
Feature(inputs, command, dependsOn) ==
    [inputs |-> inputs, command |-> command, dependsOn |-> dependsOn]

\* Go's map read: the zero value (the empty string) for an absent key
MapGet(m, k) == IF k \in DOMAIN m THEN m[k] ELSE <<>>

MapPut(m, k, v) == [x \in DOMAIN m \cup {k} |-> IF x = k THEN v ELSE m[x]]

EmptyMap == [x \in {} |-> <<>>]

\* ComputeFeatureHash fails when HashDir fails on one of the inputs
ComputeFeatureHashOk(feat, files) ==
    \A i \in 1..Len(feat.inputs) : HashDirOk(files[feat.inputs[i]])

\* ComputeFeatureHash without sort.Strings: the dependency hashes written
\* in the order they were gathered
ComputeFeatureHashUnsorted(feat, depHashes, files) ==
    Sha256Hex(feat.command
              \o Concat([i \in 1..Len(feat.inputs) |-> HashDir(files[feat.inputs[i]])])
              \o Concat(depHashes))

\* command, then the directory digests in list order, then the dependency
\* hashes sorted by value, all written into one sha256 state
ComputeFeatureHash(feat, depHashes, files) ==
    Sha256Hex(feat.command
              \o Concat([i \in 1..Len(feat.inputs) |-> HashDir(files[feat.inputs[i]])])
              \o Concat(SortStrings(depHashes)))

RECURSIVE Join(_, _)
\* strings.Join
Join(parts, sep) ==
    IF parts = <<>> THEN <<>>
    ELSE IF Len(parts) = 1 THEN parts[1]
    ELSE parts[1] \o sep \o Join(Tail(parts), sep)

\* internal/feature.ComputeFeatureHash.  depHashes is the map from dependency
\* name to fingerprint, given as the sequence of [name, hash] entries in the
\* order the range loop meets them; every entry becomes the string dep+h,
\* the strings are sorted and joined to the digests of the command and of
\* the input directories with "|"
feature_ComputeFeatureHash(f, depHashes, files) ==
    LET inputs == [i \in 1..Len(f.inputs) |-> hash_HashDir(files[f.inputs[i]])]
        deps == [i \in 1..Len(depHashes) |->
                     <<Ch(depHashes[i].name)>> \o depHashes[i].hash]
        parts == <<hash_HashString(f.command)>> \o inputs \o SortStrings(deps)
    IN  hash_HashString(Join(parts, <<Ch("|")>>))

buildGraph(features) == [n \in DOMAIN features |-> features[n].dependsOn]

\* ------------------------------------------------------------- resolution
NoErr == [kind |-> "nil", name |-> ""]

CycleErr(node) == [kind |-> "cycle", name |-> node]

UnknownErr(dep) == [kind |-> "unknown", name |-> dep]

\* the maps and the slice that main hands to topoSort
TopoStart == [visited |-> {}, temp |-> {}, order |-> <<>>, err |-> NoErr]

\* graph[node]: a nil slice when node is not a key
GraphGet(graph, node) == IF node \in DOMAIN graph THEN graph[node] ELSE <<>>

RECURSIVE topoSort(_, _, _)
RECURSIVE visitDeps(_, _, _, _)
\* visitDeps with the unknown-dependency test left out: a name that is not
\* a key is passed over
visitDepsDropUnknown(deps, i, graph, st) ==
    IF i > Len(deps) THEN st
    ELSE IF deps[i] \notin DOMAIN graph
         THEN visitDeps(deps, i + 1, graph, st)
         ELSE LET st1 == topoSort(deps[i], graph, st)
              IN  IF st1.err # NoErr THEN st1
                  ELSE visitDeps(deps, i + 1, graph, st1)

\* the loop over graph[node] of topoSort, from its i-th element on
visitDeps(deps, i, graph, st) ==
    IF i > Len(deps) THEN st
    ELSE IF deps[i] \notin DOMAIN graph
         THEN [st EXCEPT !.err = UnknownErr(deps[i])]
         ELSE LET st1 == topoSort(deps[i], graph, st)
              IN  IF st1.err # NoErr THEN st1
                  ELSE visitDeps(deps, i + 1, graph, st1)

\* topoSort appending the node before its dependencies are visited
topoSortPreOrder(node, graph, st) ==
    IF node \in st.temp THEN [st EXCEPT !.err = CycleErr(node)]
    ELSE IF node \in st.visited THEN st
    ELSE LET st1 == [st EXCEPT !.temp = @ \cup {node},
                               !.order = Append(@, node)]
             st2 == visitDeps(GraphGet(graph, node), 1, graph, st1)
         IN  IF st2.err # NoErr THEN st2
             ELSE [st2 EXCEPT !.temp = @ \ {node},
                              !.visited = @ \cup {node}]

\* topoSort keeping one map only: a node is marked done on entry
topoSortOneMap(node, graph, st) ==
    IF node \in st.visited THEN st
    ELSE LET st1 == [st EXCEPT !.visited = @ \cup {node}]
             st2 == visitDeps(GraphGet(graph, node), 1, graph, st1)
         IN  IF st2.err # NoErr THEN st2
             ELSE [st2 EXCEPT !.order = Append(@, node)]

topoSort(node, graph, st) ==
    IF node \in st.temp THEN [st EXCEPT !.err = CycleErr(node)]
    ELSE IF node \in st.visited THEN st
    ELSE LET st1 == [st EXCEPT !.temp = @ \cup {node}]
             st2 == visitDeps(GraphGet(graph, node), 1, graph, st1)
         IN  IF st2.err # NoErr THEN st2
             ELSE [st2 EXCEPT !.temp = @ \ {node},
                              !.visited = @ \cup {node},
                              !.order = Append(@, node)]

\* ------------------------------------------------------------------ cache
\* .builder-cache/<feature>/hash: absent, or a file holding a byte string
NoRecord == [exists |-> FALSE, data |-> <<>>]

Record(data) == [exists |-> TRUE, data |-> data]

\* ReadFeatureHash: ("", err) when the file is absent or the read fails
ReadFeatureHash(store, feature, readFails) ==
    IF store[feature].exists /\ ~readFails
    THEN [err |-> FALSE, data |-> store[feature].data]
    ELSE [err |-> TRUE, data |-> <<>>]

\* WriteFeatureHash with the feature name left out of the path: one file
\* that every feature's record lives in
WriteFeatureHashOneFile(store, feature, hash, outcome) ==
    IF outcome = "ok" THEN [n \in DOMAIN store |-> Record(hash)] ELSE store

\* WriteFeatureHash: "ok" writes the hash; "failed" is MkdirAll or WriteFile
\* returning an error, the record staying as it was
WriteFeatureHash(store, feature, hash, outcome) ==
    IF outcome = "ok" THEN [store EXCEPT ![feature] = Record(hash)] ELSE store

WriteOutcomes == {"ok", "failed"}

\* ------------------------------------------------------------------ state
VARIABLES
    cfg,          \* cfg.Features, the parsed builder.yaml
    fs,           \* the input directories on disk
    cache,        \* the .builder-cache records, one per feature name
    pc,           \* "idle" (never invoked), "loop" (top of the loop body),
                  \* "build" (BUILD printed, docker build next), "exit"
    featureName,  \* os.Args[2]
    buildOrder,   \* the slice topoSort appends to
    visited,      \* the done marks topoSort leaves in main's map
    temp,         \* the in-progress marks topoSort leaves in main's map
    idx,          \* position of the range loop in buildOrder
    hashCache,    \* the hashes of this run
    newHash,      \* the hash of the feature being built
    out,          \* the lines printed by this run
    status,       \* how the process ended: exit code, error kind, name
    builds,       \* the docker build commands run in this run and how
                  \* each ended
    writes,       \* the WriteFeatureHash calls of this run and how each ended
    runs,         \* invocations so far
    iters,        \* history: newHash, oldHash, err and decision of every
                  \* loop iteration of this run
    cache0,       \* history: the cache when this run started
    fs0,          \* history: the input directories when this run started
    prev,         \* history: how the previous run ended
    call,         \* the arguments of one ComputeFeatureHash call: the feature,
                  \* the dependency fingerprints and the directories on disk
    result,       \* what the call returned
    reqs          \* the POST /build requests of the REST server

vars == <<cfg, fs, cache, pc, featureName, buildOrder, visited, temp, idx,
          hashCache, newHash, out, status, builds, writes, runs, iters, cache0,
          fs0, prev, call, result, reqs>>

\* the variables of the command-line builder
runVars == <<cfg, fs, cache, pc, featureName, buildOrder, visited, temp, idx,
             hashCache, newHash, out, status, builds, writes, runs, iters,
             cache0, fs0, prev>>

Names == {"a", "b", "c"}

\* a name that is not a key of the registry
Missing == "z"

DirNames == {"dx", "dy"}

Line(tag, name) == [tag |-> tag, name |-> name]

Status(code, kind, name) == [code |-> code, kind |-> kind, name |-> name]

Running == Status(0, "running", "")

NoPrev == [valid |-> FALSE, target |-> "", status |-> Running, order |-> <<>>,
           fs |-> <<>>, stale |-> FALSE]

\* the cache test with the error test inverted (err != nil)
CacheHitOnError(read, hash) == read.err /\ read.data = hash

\* oldHash, err := cache.ReadFeatureHash(fname); err == nil && oldHash == newHash
CacheHit(read, hash) == ~read.err /\ read.data = hash

\* the dependency hashes re-read from the persisted records instead of the
\* map of this run
DepHashesFromCache(feat, hashes) ==
    [i \in 1..Len(feat.dependsOn) |-> cache[feat.dependsOn[i]].data]

\* the hashes gathered from the map of this run, in depends_on order
DepHashes(feat, hashes) ==
    [i \in 1..Len(feat.dependsOn) |-> MapGet(hashes, feat.dependsOn[i])]

\* the end of one loop iteration: the next element, or main returns
Advance ==
    /\ idx' = idx + 1
    /\ IF idx = Len(buildOrder)
       THEN pc' = "exit" /\ status' = Status(0, "ok", "")
       ELSE pc' = "loop" /\ status' = status

\* the error reported without leaving the loop: the next feature follows
ExitAndContinue(code, kind, name) ==
    /\ status' = Status(code, kind, name)
    /\ IF 0 < idx /\ idx < Len(buildOrder)
       THEN pc' = "loop" /\ idx' = idx + 1
       ELSE pc' = "exit" /\ idx' = idx

\* os.Exit(1) after an error message, or a runtime panic (code 2)
Exit(code, kind, name) ==
    /\ pc' = "exit"
    /\ status' = Status(code, kind, name)
    /\ idx' = idx

\* main up to the loop: a new process, topoSort from the target
Start(t) ==
    /\ pc \in {"idle", "exit"}
    /\ runs < MaxRuns
    /\ runs' = runs + 1
    /\ featureName' = t
    /\ hashCache' = EmptyMap
    /\ newHash' = <<>>
    /\ builds' = <<>>
    /\ writes' = <<>>
    /\ iters' = <<>>
    /\ cache0' = cache
    /\ fs0' = fs
    /\ prev' = IF pc = "idle" THEN NoPrev
               ELSE [valid |-> TRUE, target |-> featureName, status |-> status,
                     order |-> buildOrder, fs |-> fs0,
                     stale |-> /\ status.kind = "build"
                               /\ cache[status.name] # Record(newHash)]
    /\ LET st == topoSort(t, buildGraph(cfg), TopoStart)
       IN  /\ buildOrder' = st.order
           /\ visited' = st.visited
           /\ temp' = st.temp
           /\ IF st.err # NoErr
              THEN /\ out' = <<Line("Dependency error", st.err.name)>>
                   /\ pc' = "exit"
                   /\ status' = Status(1, st.err.kind, st.err.name)
                   /\ idx' = 0
              ELSE /\ out' = <<Line("Build order", t)>>
                   /\ pc' = "loop"
                   /\ status' = Running
                   /\ idx' = 1
    /\ UNCHANGED <<cfg, fs, cache>>
    /\ UNCHANGED <<call, result, reqs>>

\* the loop body with the SKIP branch leaving the map of this run alone
\* (hashCache[fname] = newHash after the continue)
DecideSkipNotRecorded(readFails) ==
    /\ pc = "loop"
    /\ LET fname == buildOrder[idx]
       IN  IF fname \notin DOMAIN cfg
           THEN \* feat is nil: feat.DependsOn panics
                /\ Exit(2, "panic", fname)
                /\ UNCHANGED <<hashCache, newHash, out, iters>>
           ELSE LET feat == cfg[fname]
                    depHashes == DepHashes(feat, hashCache)
                    hash == ComputeFeatureHash(feat, depHashes, fs)
                    read == ReadFeatureHash(cache, fname, readFails)
                    iter(d) == [name |-> fname, newHash |-> hash,
                                err |-> read.err, oldHash |-> read.data,
                                decision |-> d]
                IN  IF ~ComputeFeatureHashOk(feat, fs)
                    THEN /\ out' = Append(out, Line("Error hashing feature", fname))
                         /\ Exit(1, "hash", fname)
                         /\ UNCHANGED <<hashCache, newHash, iters>>
                    ELSE IF CacheHit(read, hash)
                    THEN /\ out' = Append(out, Line("SKIP", fname))
                         /\ iters' = Append(iters, iter("SKIP"))
                         /\ Advance
                         /\ UNCHANGED <<hashCache, newHash>>
                    ELSE /\ out' = Append(out, Line("BUILD", fname))
                         /\ newHash' = hash
                         /\ iters' = Append(iters, iter("BUILD"))
                         /\ pc' = "build"
                         /\ UNCHANGED <<hashCache, status, idx>>
    /\ UNCHANGED <<cfg, fs, cache, featureName, buildOrder, visited, temp,
                   builds, writes, runs, cache0, fs0, prev>>
    /\ UNCHANGED <<call, result, reqs>>

\* the loop body up to the SKIP / BUILD line
Decide(readFails) ==
    /\ pc = "loop"
    /\ LET fname == buildOrder[idx]
       IN  IF fname \notin DOMAIN cfg
           THEN \* feat is nil: feat.DependsOn panics
                /\ Exit(2, "panic", fname)
                /\ UNCHANGED <<hashCache, newHash, out, iters>>
           ELSE LET feat == cfg[fname]
                    depHashes == DepHashes(feat, hashCache)
                    hash == ComputeFeatureHash(feat, depHashes, fs)
                    read == ReadFeatureHash(cache, fname, readFails)
                    iter(d) == [name |-> fname, newHash |-> hash,
                                err |-> read.err, oldHash |-> read.data,
                                decision |-> d]
                IN  IF ~ComputeFeatureHashOk(feat, fs)
                    THEN /\ out' = Append(out, Line("Error hashing feature", fname))
                         /\ Exit(1, "hash", fname)
                         /\ UNCHANGED <<hashCache, newHash, iters>>
                    ELSE IF CacheHit(read, hash)
                    THEN /\ out' = Append(out, Line("SKIP", fname))
                         /\ hashCache' = MapPut(hashCache, fname, hash)
                         /\ iters' = Append(iters, iter("SKIP"))
                         /\ Advance
                         /\ UNCHANGED newHash
                    ELSE /\ out' = Append(out, Line("BUILD", fname))
                         /\ newHash' = hash
                         /\ iters' = Append(iters, iter("BUILD"))
                         /\ pc' = "build"
                         /\ UNCHANGED <<hashCache, status, idx>>
    /\ UNCHANGED <<cfg, fs, cache, featureName, buildOrder, visited, temp,
                   builds, writes, runs, cache0, fs0, prev>>
    /\ UNCHANGED <<call, result, reqs>>

\* the loop body with the cache write moved before the docker build
BuildWriteFirst(buildOk, written) ==
    /\ pc = "build"
    /\ LET fname == buildOrder[idx]
           feat == cfg[fname]
       IN  IF feat.inputs = <<>>
           THEN /\ Exit(2, "panic", fname)
                /\ UNCHANGED <<cache, hashCache, out, builds, writes>>
           ELSE /\ builds' = Append(builds, [name |-> fname, ok |-> buildOk])
                /\ cache' = WriteFeatureHash(cache, fname, newHash, written)
                /\ writes' = Append(writes, [name |-> fname, outcome |-> written])
                /\ IF ~buildOk
                   THEN /\ out' = Append(out, Line("Docker build failed", fname))
                        /\ Exit(1, "build", fname)
                        /\ UNCHANGED hashCache
                   ELSE /\ hashCache' = MapPut(hashCache, fname, newHash)
                        /\ Advance
                        /\ UNCHANGED out
    /\ UNCHANGED <<cfg, fs, featureName, buildOrder, visited, temp, newHash,
                   runs, iters, cache0, fs0, prev>>
    /\ UNCHANGED <<call, result, reqs>>

\* the rest of the loop body: docker build, then the cache write
Build(buildOk, written) ==
    /\ pc = "build"
    /\ LET fname == buildOrder[idx]
           feat == cfg[fname]
       IN  IF feat.inputs = <<>>
           THEN \* feat.Inputs[0]: index out of range
                /\ Exit(2, "panic", fname)
                /\ UNCHANGED <<cache, hashCache, out, builds, writes>>
           ELSE /\ builds' = Append(builds, [name |-> fname, ok |-> buildOk])
                /\ IF ~buildOk
                   THEN /\ out' = Append(out, Line("Docker build failed", fname))
                        /\ Exit(1, "build", fname)
                        /\ UNCHANGED <<cache, hashCache, writes>>
                   ELSE \* the error WriteFeatureHash returns is dropped
                        /\ cache' = WriteFeatureHash(cache, fname, newHash, written)
                        /\ writes' = Append(writes, [name |-> fname,
                                                     outcome |-> written])
                        /\ hashCache' = MapPut(hashCache, fname, newHash)
                        /\ Advance
                        /\ UNCHANGED out
    /\ UNCHANGED <<cfg, fs, featureName, buildOrder, visited, temp, newHash,
                   runs, iters, cache0, fs0, prev>>
    /\ UNCHANGED <<call, result, reqs>>

\* ------------------------------------------------------------ environment
\* contents an input directory can have: two files "ab" and "c"; the same
\* bytes cut as "a" and "bc"; "ab" and "d"; or no readable directory
DirV1 == Dir(<<Bytes(<<"a", "b">>), Bytes(<<"c">>)>>)

DirV2 == Dir(<<Bytes(<<"a">>), Bytes(<<"b", "c">>)>>)

DirV3 == Dir(<<Bytes(<<"a", "b">>), Bytes(<<"d">>)>>)

DirStates == {NoDir, DirV1, DirV3}

\* the directories that are edited between runs
EditedDirs == {"dx"}

\* somebody edits, restores or removes an input directory between two runs
ModifyInput(d, v) ==
    /\ pc \in {"idle", "exit"}
    /\ runs < MaxRuns
    /\ d \in EditedDirs
    /\ fs[d] # v
    /\ fs' = [fs EXCEPT ![d] = v]
    /\ UNCHANGED <<cfg, cache, pc, featureName, buildOrder, visited, temp, idx,
                   hashCache, newHash, out, status, builds, writes, runs, iters,
                   cache0, fs0, prev>>
    /\ UNCHANGED <<call, result, reqs>>

CmdX == Bytes(<<"x">>)

CmdY == Bytes(<<"y">>)

\* a <- b <- c
RegChain ==
    [n \in Names |->
        CASE n = "a" -> Feature(<<"dx">>, CmdX, <<>>)
          [] n = "b" -> Feature(<<"dy">>, CmdX, <<"a">>)
          [] OTHER   -> Feature(<<"dy">>, CmdY, <<"b">>)]

\* c depends on a and on b, b depends on a
RegDiamond ==
    [n \in Names |->
        CASE n = "a" -> Feature(<<"dx">>, CmdX, <<>>)
          [] n = "b" -> Feature(<<"dy">>, CmdX, <<"a">>)
          [] OTHER   -> Feature(<<"dy", "dx">>, CmdY, <<"b", "a">>)]

\* b has no inputs
RegNoInputs ==
    [n \in Names |->
        CASE n = "a" -> Feature(<<"dx">>, CmdX, <<>>)
          [] n = "b" -> Feature(<<>>, CmdX, <<"a">>)
          [] OTHER   -> Feature(<<"dy">>, CmdY, <<"b">>)]

\* a and b depend on each other, c names a feature that does not exist
RegBroken ==
    [n \in Names |->
        CASE n = "a" -> Feature(<<"dx">>, CmdX, <<"b">>)
          [] n = "b" -> Feature(<<"dy">>, CmdX, <<"a">>)
          [] OTHER   -> Feature(<<"dy">>, CmdY, <<Missing>>)]

\* no ComputeFeatureHash call is under examination
NoCall == [feat |-> Feature(<<>>, <<>>, <<>>), deps |-> <<>>, files |-> <<>>]

NoResult == [done |-> FALSE]

NoCalls == call = NoCall /\ result = NoResult

\* no REST server is running
NoServer == reqs = <<>>

Registries == {RegChain, RegDiamond, RegNoInputs, RegBroken}

Targets == Names \cup {Missing}

InitRun ==
    /\ fs = [d \in DirNames |-> DirV1]
    /\ cache = [n \in Names |-> NoRecord]
    /\ pc = "idle"
    /\ featureName = ""
    /\ buildOrder = <<>>
    /\ visited = {}
    /\ temp = {}
    /\ idx = 0
    /\ hashCache = EmptyMap
    /\ newHash = <<>>
    /\ out = <<>>
    /\ status = Running
    /\ builds = <<>>
    /\ writes = <<>>
    /\ runs = 0
    /\ iters = <<>>
    /\ cache0 = [n \in Names |-> NoRecord]
    /\ fs0 = [d \in DirNames |-> DirV1]
    /\ prev = NoPrev

Init == cfg \in Registries /\ InitRun /\ NoCalls /\ NoServer

Run ==
    \/ \E t \in Targets : Start(t)
    \/ \E readFails \in BOOLEAN : Decide(readFails)
    \/ \E buildOk \in BOOLEAN, written \in WriteOutcomes : Build(buildOk, written)

Next ==
    \/ Run
    \/ \E d \in DirNames, v \in DirStates : ModifyInput(d, v)

Spec == Init /\ [][Next]_vars

\* --------------------------------------------- resolution on every graph
Seqs(S, n) == UNION {[1..k -> S] : k \in 0..n}

\* depends_on lists: no name twice, or one name twice
DepLists ==
    {s \in Seqs(Targets, MaxDeps) : \A i, j \in 1..Len(s) : s[i] = s[j] => i = j}
    \cup {<<n, n>> : n \in Names}

ResolveRegistries ==
    {[n \in Names |-> Feature(<<"dx">>, CmdX, g[n])] : g \in [Names -> DepLists]}

InitResolve == cfg \in ResolveRegistries /\ InitRun /\ NoCalls /\ NoServer

\* one invocation per registry
NextResolve == pc # "exit" /\ Run

SpecResolve == InitResolve /\ [][NextResolve]_vars

TypeOK ==
    /\ pc \in {"idle", "loop", "build", "exit"}
    /\ runs \in 0..MaxRuns
    /\ idx \in 0..(Len(buildOrder) + 1)
    /\ DOMAIN hashCache \subseteq Names

\* ------------------------------------------------------ fingerprint calls
\* one call of ComputeFeatureHash, of the orchestrator and of
\* internal/feature, on arguments drawn from the sets below
Commands == {CmdX, CmdY}

\* what a directory handed to HashDir can hold
DirContents == {NoDir, DirV1, DirV2, DirV3}

InputLists == Seqs(DirNames, MaxInputs)

\* the fingerprint of a feature without dependencies
LeafHash(command, d) ==
    ComputeFeatureHash(Feature(<<"dx">>, command, <<>>), <<>>, [n \in DirNames |-> d])

\* fingerprints that dependencies can have
DepHashValues == {LeafHash(CmdX, DirV1), LeafHash(CmdX, DirV3), LeafHash(CmdY, DirV1)}

\* the dependencies of the call with their fingerprints, in depends_on
\* order, no name twice
DepEntries ==
    {s \in Seqs([name : Names, hash : DepHashValues], MaxDeps) :
        \A i, j \in 1..Len(s) : s[i].name = s[j].name => i = j}

Calls ==
    {[feat |-> Feature(i, c, [k \in 1..Len(d) |-> d[k].name]), deps |-> d, files |-> f] :
        i \in InputLists, c \in Commands, d \in DepEntries,
        f \in [DirNames -> DirContents]}

\* var depHashes []string as the loop of main gathers it
HashesOf(deps) == [i \in 1..Len(deps) |-> deps[i].hash]

\* the orchestrator's ComputeFeatureHash on the arguments c
MainHash(c) == ComputeFeatureHash(c.feat, HashesOf(c.deps), c.files)

\* internal/feature's ComputeFeatureHash on the arguments c
FeatureHash(c) == feature_ComputeFeatureHash(c.feat, c.deps, c.files)

\* both functions are called on the arguments in call; an unreadable input
\* directory makes both return "" and the error
Fingerprint ==
    /\ ~result.done
    /\ result' = [done |-> TRUE,
                  ok |-> ComputeFeatureHashOk(call.feat, call.files),
                  main |-> IF ComputeFeatureHashOk(call.feat, call.files)
                           THEN MainHash(call) ELSE <<>>,
                  feature |-> IF ComputeFeatureHashOk(call.feat, call.files)
                              THEN FeatureHash(call) ELSE <<>>,
                  dirs |-> [d \in DirNames |->
                               [ok |-> HashDirOk(call.files[d]),
                                main |-> HashDir(call.files[d]),
                                hash |-> hash_HashDir(call.files[d])]]]
    /\ UNCHANGED <<runVars, call, reqs>>

InitHash == cfg = RegChain /\ InitRun /\ NoServer /\ call \in Calls /\ result = NoResult

NextHash == Fingerprint

SpecHash == InitHash /\ [][NextHash]_vars

\* ------------------------------------------------------------ REST server
\* POST /build: gin runs the handler of every request in a goroutine of its
\* own, and the handler calls BuildFeature; the handlers share builder.yaml,
\* the input directories and the .builder-cache directory
Requests == 1..MaxRequests

\* a request that has not arrived
Waiting == [pc |-> "waiting", feature |-> "", order |-> <<>>, idx |-> 0,
            hashCache |-> EmptyMap, newHash |-> <<>>, code |-> 0]

\* the feature field of a request body: a name, or "" when it is missing
Bodies == Targets \cup {""}

\* c.JSON(code, ...): the handler returns
Respond(r, code) == [reqs[r] EXCEPT !.pc = "done", !.code = code]

\* the end of one iteration of BuildFeature's loop: the next element, or
\* return nil and the 200 response
AdvanceRequest(r, hashes) ==
    IF reqs[r].idx = Len(reqs[r].order)
    THEN [Respond(r, 200) EXCEPT !.hashCache = hashes]
    ELSE [reqs[r] EXCEPT !.idx = @ + 1, !.pc = "loop", !.hashCache = hashes]

\* the handler up to the loop of BuildFeature
Post(r, t) ==
    /\ reqs[r].pc = "waiting"
    /\ LET st == topoSort(t, buildGraph(cfg), TopoStart)
       IN  reqs' = [reqs EXCEPT ![r] =
                       IF t = "" THEN Respond(r, 400)
                       ELSE IF st.err # NoErr
                       THEN [Respond(r, 500) EXCEPT !.feature = t]
                       ELSE [reqs[r] EXCEPT !.pc = "loop", !.feature = t,
                                            !.order = st.order, !.idx = 1]]
    /\ UNCHANGED <<runVars, call, result>>

\* BuildFeature's loop body up to the SKIP / BUILD line
HandleDecide(r, readFails) ==
    /\ reqs[r].pc = "loop"
    /\ LET fname == reqs[r].order[reqs[r].idx]
       IN  reqs' = [reqs EXCEPT ![r] =
               IF fname \notin DOMAIN cfg
               THEN \* feat is nil: the panic is caught by gin's Recovery
                    Respond(r, 500)
               ELSE LET feat == cfg[fname]
                        depHashes == DepHashes(feat, reqs[r].hashCache)
                        hash == ComputeFeatureHash(feat, depHashes, fs)
                        read == ReadFeatureHash(cache, fname, readFails)
                    IN  IF ~ComputeFeatureHashOk(feat, fs) THEN Respond(r, 500)
                        ELSE IF CacheHit(read, hash)
                        THEN AdvanceRequest(r, MapPut(reqs[r].hashCache, fname, hash))
                        ELSE [reqs[r] EXCEPT !.pc = "build", !.newHash = hash]]
    /\ UNCHANGED <<runVars, call, result>>

\* the rest of the loop body: docker build, then the cache write
HandleBuild(r, buildOk, written) ==
    /\ reqs[r].pc = "build"
    /\ LET fname == reqs[r].order[reqs[r].idx]
           feat == cfg[fname]
       IN  IF feat.inputs = <<>> \/ ~buildOk
           THEN \* feat.Inputs[0] panics, or cmd.Run returns an error
                /\ reqs' = [reqs EXCEPT ![r] = Respond(r, 500)]
                /\ UNCHANGED cache
           ELSE /\ cache' = WriteFeatureHash(cache, fname, reqs[r].newHash, written)
                /\ reqs' = [reqs EXCEPT ![r] =
                               AdvanceRequest(r, MapPut(reqs[r].hashCache, fname,
                                                        reqs[r].newHash))]
    /\ UNCHANGED <<cfg, fs, pc, featureName, buildOrder, visited, temp, idx,
                   hashCache, newHash, out, status, builds, writes, runs, iters,
                   cache0, fs0, prev, call, result>>

InitServer ==
    /\ cfg \in {RegChain, RegNoInputs}
    /\ InitRun
    /\ NoCalls
    /\ reqs = [r \in Requests |-> Waiting]

NextServer ==
    \/ \E r \in Requests, t \in Bodies : Post(r, t)
    \/ \E r \in Requests, readFails \in BOOLEAN : HandleDecide(r, readFails)
    \/ \E r \in Requests, buildOk \in BOOLEAN, written \in WriteOutcomes :
          HandleBuild(r, buildOk, written)

SpecServer == InitServer /\ [][NextServer]_vars

\* -------------------------------------------------- properties: resolution
\* the keys that n lists in depends_on
Deps(n) == Range(cfg[n].dependsOn) \cap DOMAIN cfg

RECURSIVE Closure(_)
\* the keys reachable from the set S through depends_on, S included
Closure(S) ==
    LET T == S \cup UNION {Deps(n) : n \in S}
    IN  IF T = S THEN S ELSE Closure(T)

\* the features that n depends on, directly or transitively
DependsOnPlus(n) == Closure(Deps(n))

OnCycle(n) == n \in DependsOnPlus(n)

Dangling(n) == Range(cfg[n].dependsOn) \ DOMAIN cfg

\* the position of n in the build order
Pos(n) == CHOOSE i \in 1..Len(buildOrder) : buildOrder[i] = n

\* an invocation has been made and topoSort has returned
Invoked == runs > 0

ResolutionFailed ==
    /\ pc = "exit"
    /\ status.code = 1
    /\ status.kind \in {"cycle", "unknown"}

\* nothing of the loop has happened in this run
LoopNotEntered ==
    /\ iters = <<>>
    /\ builds = <<>>
    /\ writes = <<>>
    /\ hashCache = EmptyMap
    /\ cache = cache0
    /\ \A i \in 1..Len(out) : out[i].tag \notin {"SKIP", "BUILD"}

\* C2: on an acyclic registry without dangling references and a target in
\* it, topoSort succeeds and the order holds exactly the features reachable
\* from the target, each once, every dependency before its dependents.
C2_OrderIsTopological ==
    (/\ Invoked
     /\ featureName \in DOMAIN cfg
     /\ \A n \in DOMAIN cfg : ~OnCycle(n) /\ Dangling(n) = {})
    => /\ ~ResolutionFailed
       /\ Range(buildOrder) = Closure({featureName})
       /\ Len(buildOrder) = Cardinality(Range(buildOrder))
       /\ \A n \in Range(buildOrder) : \A d \in Deps(n) :
              d \in Range(buildOrder) /\ Pos(d) < Pos(n)

\* C2 witness: a target with two dependencies, one of them reached on two
\* paths, resolved into an order of three
C2_Witness ==
    /\ pc = "loop"
    /\ idx = 1
    /\ \A n \in DOMAIN cfg : ~OnCycle(n) /\ Dangling(n) = {}
    /\ Len(buildOrder) = 3
    /\ Cardinality(Deps(featureName)) = 2
    /\ \E d \in Deps(featureName) : Deps(d) # {}

\* C4: a target that is not a key of the registry ends the run with an
\* unknown-dependency error naming it; it is in no build order and the
\* loop is not entered for it.
C4_UnknownTargetRejected ==
    (Invoked /\ featureName \notin DOMAIN cfg)
    => /\ ResolutionFailed
       /\ status.kind = "unknown"
       /\ status.name = featureName
       /\ featureName \notin Range(buildOrder)
       /\ LoopNotEntered

\* C8: a cycle among the features reachable from the target, and no
\* dangling reference among them, ends the run with a cycle error naming a
\* node that lies on a cycle and is still marked in-progress; the loop is
\* not entered.
C8_CycleDetected ==
    (/\ Invoked
     /\ featureName \in DOMAIN cfg
     /\ \E n \in Closure({featureName}) : OnCycle(n)
     /\ \A n \in Closure({featureName}) : Dangling(n) = {})
    => /\ ResolutionFailed
       /\ status.kind = "cycle"
       /\ status.name \in Closure({featureName})
       /\ OnCycle(status.name)
       /\ status.name \in temp
       /\ LoopNotEntered

\* C8 witness: a cycle of two features that is entered from a third one
C8_Witness ==
    /\ ResolutionFailed
    /\ status.kind = "cycle"
    /\ featureName \in DOMAIN cfg
    /\ \A n \in Closure({featureName}) : Dangling(n) = {}
    /\ status.name # featureName
    /\ ~OnCycle(featureName)
    /\ featureName \notin Deps(featureName)
    /\ status.name \notin Deps(status.name)

\* C9 as stated: a dangling reference among the features reachable from the
\* target always ends the run with an unknown-dependency error.
C9_AlwaysUnknownError ==
    (/\ Invoked
     /\ featureName \in DOMAIN cfg
     /\ \E n \in Closure({featureName}) : Dangling(n) # {})
    => /\ ResolutionFailed
       /\ status.kind = "unknown"
       /\ \E n \in Closure({featureName}) : status.name \in Dangling(n)
       /\ LoopNotEntered

\* C9 amended: a dangling reference among the features reachable from the
\* target ends the run in resolution: with an unknown-dependency error
\* naming a missing reference of a reachable feature or, only if a cycle is
\* reachable too, with a cycle error; the loop is not entered.
C9_DanglingFailsResolution ==
    (/\ Invoked
     /\ featureName \in DOMAIN cfg
     /\ \E n \in Closure({featureName}) : Dangling(n) # {})
    => /\ ResolutionFailed
       /\ \/ /\ status.kind = "unknown"
             /\ \E n \in Closure({featureName}) : status.name \in Dangling(n)
          \/ /\ status.kind = "cycle"
             /\ \E n \in Closure({featureName}) : OnCycle(n)
       /\ LoopNotEntered

\* C9 witness: the dangling reference is listed by a dependency of the
\* target, after a reference that exists
C9_Witness ==
    /\ ResolutionFailed
    /\ status.kind = "unknown"
    /\ featureName \in DOMAIN cfg
    /\ Dangling(featureName) = {}
    /\ \E n \in Deps(featureName) :
          /\ Len(cfg[n].dependsOn) = 2
          /\ cfg[n].dependsOn[1] \in DOMAIN cfg
          /\ cfg[n].dependsOn[2] = status.name

\* --------------------------------------------------- properties: the loop
\* how often docker build was run for n in this run
BuildCount(n) == Cardinality({i \in DOMAIN builds : builds[i].name = n})

\* the i-th loop iteration of this run has ended (or the run has)
IterationDone(i) == i < Len(iters) \/ pc # "build"

\* the persisted record held exactly this hash when the run started; no
\* other iteration of the run writes it
Persisted(it) == cache0[it.name] = Record(it.newHash)

\* the dependency hashes that the fingerprint in a record of n was computed
\* from: the last Len(depends_on) digests of what it hashes
FoldedDeps(n, data) ==
    IF data = <<>> THEN {}
    ELSE LET m == data[1].sha
             k == Len(cfg[n].dependsOn)
         IN  {<<m[i]>> : i \in (Len(m) - k + 1)..Len(m)}

\* C1 as stated: in one run, a BUILD decision for a feature implies a BUILD
\* decision for every feature of the order that depends on it, directly or
\* transitively, whatever the earlier runs left in the cache.
C1_BuildForcesDependents ==
    \A i, j \in DOMAIN iters :
        (/\ iters[i].name \in DependsOnPlus(iters[j].name)
         /\ iters[i].decision = "BUILD")
        => iters[j].decision = "BUILD"

\* C1 amended: in one run, a feature is decided BUILD whenever a direct
\* dependency was decided BUILD with a fingerprint that is not among the
\* dependency fingerprints the feature's own cache record was computed
\* from, whatever the earlier runs left in the cache.
C1_NewDependencyHashForcesBuild ==
    \A i, j \in DOMAIN iters :
        (/\ iters[i].name \in Deps(iters[j].name)
         /\ iters[i].decision = "BUILD"
         /\ iters[i].newHash \notin FoldedDeps(iters[j].name, iters[j].oldHash))
        => iters[j].decision = "BUILD"

\* C1 witness: the dependent has a readable record computed from another
\* dependency fingerprint, its own inputs were not edited, and it is built
\* after its dependency was
C1_Witness ==
    \E i, j \in DOMAIN iters :
        /\ iters[i].name \in Deps(iters[j].name)
        /\ iters[i].decision = "BUILD"
        /\ ~iters[j].err
        /\ iters[j].oldHash # <<>>
        /\ iters[i].newHash \notin FoldedDeps(iters[j].name, iters[j].oldHash)
        /\ Range(cfg[iters[j].name].inputs) \cap EditedDirs = {}
        /\ iters[j].decision = "BUILD"
        /\ BuildCount(iters[j].name) = 1

\* C3: a cache write that fails after a successful build ends the run with
\* an error for that feature: no further iteration, no exit code 0.
C3_WriteFailureSurfaced ==
    \A i \in DOMAIN writes :
        writes[i].outcome # "ok"
        => /\ i = Len(writes)
           /\ iters[Len(iters)].name = writes[i].name
           /\ pc = "exit"
           /\ status.code # 0
           /\ status.name = writes[i].name

\* C5: an iteration whose cache read succeeds and returns the hash just
\* computed decides SKIP, runs docker build zero times for the feature and
\* records the hash in the map of the run.
C5_SkipOnMatch ==
    \A i \in DOMAIN iters :
        (~iters[i].err /\ Persisted(iters[i]))
        => /\ iters[i].decision = "SKIP"
           /\ BuildCount(iters[i].name) = 0
           /\ iters[i].name \in DOMAIN hashCache
           /\ hashCache[iters[i].name] = iters[i].newHash

\* C5 witness: a dependency was skipped and its dependent was then hashed
\* from the skipped feature's entry in the map of the run
C5_Witness ==
    \E i, j \in DOMAIN iters :
        /\ i < j
        /\ iters[i].name \in Deps(iters[j].name)
        /\ ~iters[i].err
        /\ Persisted(iters[i])
        /\ iters[i].decision = "SKIP"
        /\ iters[i].newHash \in FoldedDeps(iters[j].name, iters[j].newHash)

\* C6: an iteration whose record is absent, unreadable or different decides
\* BUILD, runs docker build exactly once and, when the build succeeds,
\* leaves the record equal to the hash just computed.
C6_BuildOnMiss ==
    \A i \in DOMAIN iters :
        (iters[i].err \/ ~Persisted(iters[i]))
        => /\ iters[i].decision = "BUILD"
           /\ IterationDone(i)
              => /\ BuildCount(iters[i].name) = 1
                 /\ \A b \in DOMAIN builds :
                        (builds[b].name = iters[i].name /\ builds[b].ok)
                        => cache[iters[i].name] = Record(iters[i].newHash)

\* a failed docker build ends the run and leaves the record of the feature
\* as it was when the run started
FailedBuildKeepsRecord ==
    (pc = "exit" /\ status.kind = "build")
    => /\ status.code = 1
       /\ iters[Len(iters)].name = status.name
       /\ cache[status.name] = cache0[status.name]

\* the previous run ended in a failed docker build and the inputs are as
\* they were then
AfterFailedBuild == prev.valid /\ prev.status.kind = "build" /\ prev.fs = fs0

\* C7 as stated: a failed build leaves the record untouched, and the next
\* run on unchanged inputs decides BUILD for that feature again.
C7_FailedBuildRebuilt ==
    /\ FailedBuildKeepsRecord
    /\ AfterFailedBuild
       => \A i \in DOMAIN iters :
              iters[i].name = prev.status.name => iters[i].decision = "BUILD"

\* C7 amended: a failed build leaves the record untouched; if that record
\* is absent or differs from the fingerprint of the failed build, the next
\* run on unchanged inputs that reaches the feature decides BUILD again.
C7_FailedBuildRebuiltIfStale ==
    /\ FailedBuildKeepsRecord
    /\ (AfterFailedBuild /\ prev.stale)
       => \A i \in DOMAIN iters :
              iters[i].name = prev.status.name => iters[i].decision = "BUILD"

\* C7 witness: the run after a failed build reads the record of the
\* feature without error and builds the feature again
C7_Witness ==
    /\ AfterFailedBuild
    /\ prev.stale
    /\ \E i \in DOMAIN iters :
          /\ iters[i].name = prev.status.name
          /\ iters[i].decision = "BUILD"
          /\ i > 1
          /\ BuildCount(iters[i].name) = 1

\* C10: the run that follows a run without error, on the same target and
\* unchanged inputs, has the same build order, decides SKIP only, runs no
\* docker build and leaves the cache as it was.
C10_IdempotentRerun ==
    (/\ prev.valid
     /\ prev.status.kind = "ok"
     /\ prev.target = featureName
     /\ prev.fs = fs0)
    => /\ buildOrder = prev.order
       /\ \A i \in DOMAIN iters : iters[i].decision = "SKIP"
       /\ builds = <<>>
       /\ cache = cache0
       /\ pc = "exit" => status.kind = "ok"

\* ------------------------------------------- properties: change propagation
\* exactly one file of the directory differs between two of its contents
OneFileChanged(d1, d2) ==
    /\ d1.exists /\ d2.exists
    /\ DOMAIN d1.files = DOMAIN d2.files
    /\ Cardinality({p \in DOMAIN d1.files : d1.files[p] # d2.files[p]}) = 1

\* the input directories whose content differs from the previous run's
ChangedDirs == {d \in DirNames : prev.fs[d] # fs0[d]}

\* this run follows a run without error on the same target, and since then
\* one file of one input directory has changed
AfterCleanRunOneEdit ==
    /\ prev.valid
    /\ prev.status.kind = "ok"
    /\ prev.target = featureName
    /\ Cardinality(ChangedDirs) = 1
    /\ \A d \in ChangedDirs : OneFileChanged(prev.fs[d], fs0[d])

\* the features that have a changed directory among their inputs
Touched == {n \in DOMAIN cfg : Range(cfg[n].inputs) \cap ChangedDirs # {}}

\* a touched feature, or a feature that depends on one
Affected(n) == n \in Touched \/ DependsOnPlus(n) \cap Touched # {}

\* C11: in the run that follows a run without error on the same target,
\* after one file of an input directory of a dependency has changed, every
\* decision taken for that dependency or for a feature depending on it is
\* BUILD, and every decision taken for another feature is SKIP.
C11_ChangePropagates ==
    AfterCleanRunOneEdit
    => \A i \in DOMAIN iters :
           iters[i].decision = IF Affected(iters[i].name) THEN "BUILD" ELSE "SKIP"

\* --------------------------------------------------- properties: the cache
\* C12: a step changes the record of a feature only if it is the step in
\* which docker build for that same feature has just succeeded in this run,
\* and then the record holds the fingerprint computed for it; every other
\* step (SKIP, a failed hash, a failed resolution, a failed build, the
\* processing of another feature) leaves the record as it was.
C12_RecordWrittenOnlyAfterBuild ==
    [][\A n \in DOMAIN cache :
           cache'[n] # cache[n]
           => /\ pc = "build"
              /\ buildOrder[idx] = n
              /\ builds' = Append(builds, [name |-> n, ok |-> TRUE])
              /\ cache'[n] = Record(newHash)]_vars

\* C12 witness: the run has overwritten the record of one feature and has
\* ended in the failed build of another, whose record is as it was
C12_Witness ==
    /\ pc = "exit"
    /\ status.kind = "build"
    /\ cache0[status.name].exists
    /\ cache[status.name] = cache0[status.name]
    /\ \E n \in DOMAIN cache :
          /\ cache0[n].exists
          /\ cache[n] # cache0[n]
          /\ \E i \in DOMAIN builds : builds[i] = [name |-> n, ok |-> TRUE]

\* ---------------------------------------------------- properties: errors
\* the run has ended on a resolution, hashing or build error
EndedInError == pc = "exit" /\ status.kind \in {"cycle", "unknown", "hash", "build"}

\* the features of the build order after the one the run ended at
LaterFeatures == {buildOrder[i] : i \in (idx + 1)..Len(buildOrder)}

\* the names the run has fingerprinted, built, written or put in its map
Processed ==
    {iters[i].name : i \in DOMAIN iters} \cup {builds[i].name : i \in DOMAIN builds}
    \cup {writes[i].name : i \in DOMAIN writes} \cup DOMAIN hashCache

\* the records this run has written are still in the cache
WrittenRecordsKept ==
    \A i \in DOMAIN writes :
        writes[i].outcome = "ok"
        => /\ cache[writes[i].name].exists
           /\ cache[writes[i].name].data = hashCache[writes[i].name]

\* the messages main prints before os.Exit(1)
ErrorTags == {"Dependency error", "Error hashing feature", "Docker build failed"}

\* C16: as soon as resolution, hashing or docker build has failed, the run
\* has ended with a non-zero exit code at that feature: no later feature of
\* the order has been fingerprinted, read, built or written, the failed
\* step was taken once, and the records written earlier in the run are
\* still in place.
C16_ErrorAbortsRun ==
    /\ (\/ \E i \in DOMAIN out : out[i].tag \in ErrorTags
        \/ \E i \in DOMAIN builds : ~builds[i].ok) => EndedInError
    /\ EndedInError
       => /\ status.code # 0
          /\ out[Len(out)].tag \in ErrorTags
          /\ LaterFeatures \cap Processed = {}
          /\ status.kind \in {"hash", "build"} => status.name = buildOrder[idx]
          /\ status.kind \in {"cycle", "unknown"} => Processed = {}
          /\ \A n \in Processed : BuildCount(n) <= 1
          /\ WrittenRecordsKept

\* C16 witness: the build of a feature failed after an earlier feature of
\* the run was built and written, and a later feature was left unprocessed
C16_Witness ==
    /\ EndedInError
    /\ status.kind = "build"
    /\ LaterFeatures # {}
    /\ \E i \in DOMAIN writes : writes[i].outcome = "ok"

\* ------------------------------------------- properties: the map of the run
\* C18: at the top of the loop body, every name in depends_on of the
\* feature about to be processed is a key of the map of this run, and the
\* map holds for it the non-empty fingerprint that an earlier iteration of
\* this run computed.
C18_DependencyHashesPresent ==
    (pc = "loop" /\ buildOrder[idx] \in DOMAIN cfg)
    => \A d \in Range(cfg[buildOrder[idx]].dependsOn) :
           /\ d \in DOMAIN hashCache
           /\ hashCache[d] # <<>>
           /\ \E i \in DOMAIN iters :
                 /\ i < idx
                 /\ iters[i].name = d
                 /\ iters[i].newHash = hashCache[d]

\* C18 witness: the loop is about to gather two dependency fingerprints, one
\* of a feature skipped in this run and one of a feature built in this run,
\* and the persisted record of the built one holds another value
C18_Witness ==
    /\ pc = "loop"
    /\ buildOrder[idx] \in DOMAIN cfg
    /\ \E i, j \in DOMAIN iters :
          /\ {iters[i].name, iters[j].name} \subseteq Range(cfg[buildOrder[idx]].dependsOn)
          /\ iters[i].decision = "SKIP"
          /\ iters[j].decision = "BUILD"
          /\ cache[iters[j].name] # Record(hashCache[iters[j].name])

\* ------------------------------------------- properties: the build context
\* the outcomes a run is declared to end in: success, or a resolution,
\* hashing or build error reported with exit code 1
DeclaredOutcomes == {"ok", "cycle", "unknown", "hash", "build"}

\* C20: a feature with an empty inputs list for which the run has decided
\* BUILD is handed to docker build (one build was started for it), and the
\* run ends in a declared outcome, never in a runtime panic.
C20_BuildContextDefined ==
    \A i \in DOMAIN iters :
        (/\ cfg[iters[i].name].inputs = <<>>
         /\ iters[i].decision = "BUILD"
         /\ pc = "exit")
        => /\ status.kind \in DeclaredOutcomes
           /\ \E k \in DOMAIN builds : builds[k].name = iters[i].name

\* ------------------------------------------------ properties: fingerprints
\* the call has returned a fingerprint
Returned == result.done /\ result.ok

\* the arguments of the call with another command
CommandChanged ==
    {[call EXCEPT !.feat.command = c] : c \in Commands \ {call.feat.command}}

\* the arguments of the call with other content in one input directory
DirChanged ==
    UNION {{[call EXCEPT !.files[d] = v] : v \in DirContents \ {NoDir, call.files[d]}} :
              d \in Range(call.feat.inputs)}

\* the arguments of the call with another fingerprint for one dependency
DepChanged ==
    UNION {{[call EXCEPT !.deps[i].hash = h] : h \in DepHashValues \ {call.deps[i].hash}} :
              i \in DOMAIN call.deps}

\* C13: ComputeFeatureHash is a function of the command, the content of the
\* input directories in list order and the dependency fingerprints, and a
\* change of exactly one of them (the command, the content of one input
\* directory, the fingerprint of one dependency) changes what it returns.
C13_SingleChangeChangesHash ==
    Returned
    => /\ result.main = MainHash(call)
       /\ result.feature = FeatureHash(call)
       /\ \A c \in CommandChanged \cup DirChanged \cup DepChanged :
              /\ MainHash(c) # result.main
              /\ FeatureHash(c) # result.feature

\* the permutations of 1..n
Perms(n) == {p \in [1..n -> 1..n] : \A i, j \in 1..n : p[i] = p[j] => i = j}

Permuted(s, p) == [i \in 1..Len(s) |-> s[p[i]]]

\* the digests of the input directories in the order of the list
MainDigests(inputs) == [i \in 1..Len(inputs) |-> HashDir(call.files[inputs[i]])]

FeatureDigests(inputs) == [i \in 1..Len(inputs) |-> hash_HashDir(call.files[inputs[i]])]

\* C14: the fingerprint is the same for every order in which the same
\* dependency entries are handed over, and it is another one for every
\* reordering of the inputs list that puts the directory digests in another
\* order.
C14_DepsUnorderedInputsOrdered ==
    Returned
    => /\ \A p \in Perms(Len(call.deps)) :
              LET c == [call EXCEPT !.deps = Permuted(call.deps, p)]
              IN  MainHash(c) = result.main /\ FeatureHash(c) = result.feature
       /\ \A p \in Perms(Len(call.feat.inputs)) :
              LET inputs == Permuted(call.feat.inputs, p)
                  c == [call EXCEPT !.feat.inputs = inputs]
              IN  /\ MainDigests(inputs) # MainDigests(call.feat.inputs)
                     => MainHash(c) # result.main
                  /\ FeatureDigests(inputs) # FeatureDigests(call.feat.inputs)
                     => FeatureHash(c) # result.feature

\* C14 witness: a fingerprint was returned for two dependency fingerprints
\* handed over in descending order and two inputs with different digests
C14_Witness ==
    /\ Returned
    /\ Len(call.deps) = 2
    /\ StrLess(call.deps[2].hash, call.deps[1].hash)
    /\ Len(call.feat.inputs) = 2
    /\ MainDigests(call.feat.inputs)[1] # MainDigests(call.feat.inputs)[2]

\* the arguments of the call with the fingerprints of the i-th and the j-th
\* dependency exchanged
Exchanged(i, j) ==
    [call EXCEPT !.deps[i].hash = call.deps[j].hash,
                 !.deps[j].hash = call.deps[i].hash]

\* C17: the fingerprint depends on which dependency carries which
\* fingerprint: when two dependencies exchange their different fingerprints,
\* ComputeFeatureHash returns another value.
C17_ExchangeChangesHash ==
    Returned
    => \A i, j \in DOMAIN call.deps :
           call.deps[i].hash # call.deps[j].hash
           => /\ MainHash(Exchanged(i, j)) # result.main
              /\ FeatureHash(Exchanged(i, j)) # result.feature

\* C19: two directories that hold different files have different digests,
\* also when the files concatenate to the same bytes, and the HashDir of the
\* orchestrator equates two directories exactly if internal/hash.HashDir
\* equates them.
C19_FileBoundariesHashed ==
    result.done
    => \A d1, d2 \in DirNames :
           (result.dirs[d1].ok /\ result.dirs[d2].ok)
           => /\ call.files[d1] # call.files[d2]
                 => result.dirs[d1].main # result.dirs[d2].main
              /\ result.dirs[d1].main = result.dirs[d2].main
                 <=> result.dirs[d1].hash = result.dirs[d2].hash

\* ------------------------------------------------ properties: concurrency
\* the requests whose BuildFeature call is in its loop
InPass == {r \in Requests : reqs[r].pc \in {"loop", "build"}}

\* the feature whose docker build the request r is running
Building(r) == reqs[r].order[reqs[r].idx]

\* C15: at most one orchestration pass is executing at any time; no two
\* passes are between the cache read and the cache write (docker build
\* running) of the same feature.
C15_OnePassAtATime ==
    /\ Cardinality(InPass) <= 1
    /\ \A r1, r2 \in Requests :
           (/\ r1 # r2
            /\ reqs[r1].pc = "build"
            /\ reqs[r2].pc = "build") => Building(r1) # Building(r2)

====
